---- MODULE Spec2Model ----
(***************************************************************************)
(* Gas-value accounting of patex-chain (package vm, gas tracker):          *)
(*   - GasTracker: the per-execution ledger (UseGas / RefundGas),          *)
(*   - pack / unpack: the 32-byte slot codec of GasParameters,             *)
(*   - readGasParameters / updateGasParameters / updateGasPredeploy:       *)
(*     the accrual record store,                                           *)
(*   - AllocateDevGas: the proportional distribution.                      *)
(*                                                                         *)
(* Scaling.  uint64 arithmetic is modelled modulo UintMod (2^64 in the     *)
(* code) and a byte holds the digits 0..ByteBase-1 (0..255 in the code).   *)
(* The slot layout keeps the code's lengths 1 + 12 + 15 + 4 = 32, so the   *)
(* field limits 2^96, 2^120 and 2^32 of the code are ByteBase^12,          *)
(* ByteBase^15 and ByteBase^4 here.  big.Int values are unbounded Int.     *)
(*                                                                         *)
(* Callers.  A ledger lives for one execution unit: UseGas / RefundGas     *)
(* calls, then AllocateDevGas once, then a new ledger.  setGasMode (the    *)
(* toggle of a record's mode) runs between execution units.  A panic ends  *)
(* the run: status = "panic" has no successor, and what the panicking call *)
(* had already written stays in state.  The iteration order of the Go map  *)
(* is a nondeterministic choice among all orders of its keys.  last keeps  *)
(* the arguments of the latest call and the state it started from.         *)
(***************************************************************************)
EXTENDS Integers, Sequences, FiniteSets, TLC

\* ---------------------------------------------------------------- bounds
UintMod == 32
ByteBase == 2
MaxLedgerOps == 2
MaxModeSets == 2
MaxDistribute == 2
MaxGasPrice == 2

\* ------------------------------------------------------ layout constants
ModeLen == 1
EtherBalanceLen == 12
EtherSecondsLen == 15
LastUpdatedLen == 4
SlotLen == 32

\* the contract addresses, getAddr(1) and getAddr(2) of the tests
Addrs == {1, 2}
PatexBaseFeeRecipient == "PatexBaseFeeRecipient"
PatexGasAddress == "PatexGasAddress"
Accounts == {PatexBaseFeeRecipient, PatexGasAddress}

\* ---------------------------------------------------------------- inputs
\* amounts handed to UseGas / RefundGas (uint64)
UseAmounts == {5, UintMod - 1}
RefundAmounts == {2}
\* refund argument of AllocateDevGas (uint64)
DevRefunds == {0, 5}
\* gasPrice: a price in wei, zero or positive (the storage capability's
\* AddBalance is only ever handed non-negative credits)
GasPrices == {0, MaxGasPrice}
\* block timestamps (uint64); 20 does not fit the 4-digit lastUpdated field
Timestamps == {1, 2, 20}

VARIABLES allocations, gasUsed, state, balance, status, last, nOps, nMode,
          nDist, codecIn, codecOut

vars == <<allocations, gasUsed, state, balance, status, last, nOps, nMode,
          nDist, codecIn, codecOut>>

\* ------------------------------------------------------------ arithmetic
Abs(x) == IF x < 0 THEN -x ELSE x

RECURSIVE Pow(_, _)
Pow(b, n) == IF n = 0 THEN 1 ELSE b * Pow(b, n - 1)

RECURSIVE SumOver(_, _)
\* sum of f[a] over a \in S
SumOver(f, S) ==
  IF S = {} THEN 0
  ELSE LET a == CHOOSE x \in S : TRUE IN f[a] + SumOver(f, S \ {a})

Perms(S) ==
  {p \in [1..Cardinality(S) -> S] :
      \A i, j \in 1..Cardinality(S) : i # j => p[i] # p[j]}

\* ----------------------------------------------------------------- codec
\* big.Int.FillBytes(buf): |x| as a zero-extended big-endian digit string of
\* length n; panics when |x| does not fit
\* mutant: the fit test off by one
FitsBytes_OffByOne(x, n) == Abs(x) <= Pow(ByteBase, n)

FitsBytes(x, n) == Abs(x) < Pow(ByteBase, n)

FillBytes(x, n) ==
  [i \in 1..n |-> (Abs(x) \div Pow(ByteBase, n - i)) % ByteBase]

RECURSIVE SetBytes(_)
\* big.Int.SetBytes(buf): the big-endian unsigned value of buf
SetBytes(buf) ==
  IF Len(buf) = 0 THEN 0
  ELSE SetBytes(SubSeq(buf, 1, Len(buf) - 1)) * ByteBase + buf[Len(buf)]

ZeroHash == [i \in 1..SlotLen |-> 0]

\* pack panics (FillBytes) iff a field exceeds its buffer
packPanics(params) ==
  \/ ~FitsBytes(params.etherBalance, EtherBalanceLen)
  \/ ~FitsBytes(params.etherSeconds, EtherSecondsLen)
  \/ ~FitsBytes(params.lastUpdated, LastUpdatedLen)

pack(params) ==
  <<IF params.mode THEN 1 ELSE 0>>
    \o FillBytes(params.etherBalance, EtherBalanceLen)
    \o FillBytes(params.etherSeconds, EtherSecondsLen)
    \o FillBytes(params.lastUpdated, LastUpdatedLen)

unpackErr(bytes) == Len(bytes) # SlotLen

\* mutant: etherBalance read from offset 0, the mode byte included
unpack_BalanceFromModeByte(bytes) ==
  [mode         |-> bytes[1] # 0,
   etherBalance |-> SetBytes(SubSeq(bytes, 1, ModeLen + EtherBalanceLen)),
   etherSeconds |-> SetBytes(SubSeq(bytes, ModeLen + EtherBalanceLen + 1,
                                    ModeLen + EtherBalanceLen + EtherSecondsLen)),
   lastUpdated  |-> SetBytes(SubSeq(bytes, ModeLen + EtherBalanceLen + EtherSecondsLen + 1,
                                    SlotLen))]

unpack(bytes) ==
  [mode         |-> bytes[1] # 0,
   etherBalance |-> SetBytes(SubSeq(bytes, ModeLen + 1, ModeLen + EtherBalanceLen)),
   etherSeconds |-> SetBytes(SubSeq(bytes, ModeLen + EtherBalanceLen + 1,
                                    ModeLen + EtherBalanceLen + EtherSecondsLen)),
   lastUpdated  |-> SetBytes(SubSeq(bytes, ModeLen + EtherBalanceLen + EtherSecondsLen + 1,
                                    SlotLen))]

\* ---------------------------------------------------------- record store
\* keccak256(address ++ "parameters"): an injective key per address
getContractStorageSlot(contractAddress) == <<contractAddress, "parameters">>

Slots == {getContractStorageSlot(a) : a \in Addrs}

readGasParameters(st, contractAddress) ==
  unpack(st[getContractStorageSlot(contractAddress)])

\* the storage after updateGasParameters (defined when pack does not panic)
updateGasParameters(st, contractAddress, gasParameters) ==
  [st EXCEPT ![getContractStorageSlot(contractAddress)] = pack(gasParameters)]

\* mutant: the fee replaces the balance instead of being added to it
predeployParameters_BalanceReplaced(fee, timestamp, gasParameters) ==
  [mode         |-> gasParameters.mode,
   etherSeconds |-> gasParameters.etherSeconds
                      + gasParameters.etherBalance * (timestamp - gasParameters.lastUpdated),
   etherBalance |-> fee,
   lastUpdated  |-> timestamp]

\* mutant: etherSeconds accrued on the balance after the fee was added
predeployParameters_PostBalance(fee, timestamp, gasParameters) ==
  [mode         |-> gasParameters.mode,
   etherSeconds |-> gasParameters.etherSeconds
                      + (gasParameters.etherBalance + fee)
                          * (timestamp - gasParameters.lastUpdated),
   etherBalance |-> gasParameters.etherBalance + fee,
   lastUpdated  |-> timestamp]

\* the record updateGasPredeploy hands to updateGasParameters
predeployParameters(fee, timestamp, gasParameters) ==
  [mode         |-> gasParameters.mode,
   etherSeconds |-> gasParameters.etherSeconds
                      + gasParameters.etherBalance * (timestamp - gasParameters.lastUpdated),
   etherBalance |-> gasParameters.etherBalance + fee,
   lastUpdated  |-> timestamp]

\* ---------------------------------------------------------------- ledger
GetGasUsedByContract(allocs, address) ==
  IF address \in DOMAIN allocs THEN allocs[address] ELSE 0

MapSet(m, k, v) == [a \in (DOMAIN m) \cup {k} |-> IF a = k THEN v ELSE m[a]]

EmptyMap == [a \in {} |-> 0]

Snapshot ==
  [allocations |-> allocations, gasUsed |-> gasUsed, state |-> state,
   balance |-> balance]

NoCall ==
  [op |-> "none", address |-> 0, amount |-> 0, gasPrice |-> 0, refund |-> 0,
   timestamp |-> 0, pre |-> <<>>]

NoParams == [mode |-> FALSE, etherBalance |-> 0, etherSeconds |-> 0, lastUpdated |-> 0]
NoCodec == [step |-> "none", panicked |-> FALSE, packed |-> <<>>, input |-> <<>>,
            err |-> FALSE, unpacked |-> NoParams]

Init ==
  /\ allocations = EmptyMap
  /\ gasUsed = 0
  /\ state = [s \in Slots |-> ZeroHash]
  /\ balance = [a \in Accounts |-> 0]
  /\ status = "ok"
  /\ last = NoCall
  /\ nOps = 0
  /\ nMode = 0
  /\ nDist = 0
  /\ codecIn = NoParams
  /\ codecOut = NoCodec

\* a fresh ledger for the next execution unit
NewGasTracker ==
  /\ status = "ok"
  /\ last.op = "AllocateDevGas"
  /\ allocations' = EmptyMap
  /\ gasUsed' = 0
  /\ last' = [NoCall EXCEPT !.op = "NewGasTracker"]
  /\ UNCHANGED <<state, balance, status, nOps, nMode, nDist, codecIn, codecOut>>

UseGasUsed(used, amount) == (used + amount) % UintMod

UseGas(address, amount) ==
  /\ status = "ok"
  /\ last.op # "AllocateDevGas"
  /\ nOps < MaxLedgerOps
  /\ gasUsed' = UseGasUsed(gasUsed, amount)
  /\ allocations' = MapSet(allocations, address,
                           (GetGasUsedByContract(allocations, address) + amount) % UintMod)
  /\ nOps' = nOps + 1
  /\ last' = [NoCall EXCEPT !.op = "UseGas"]
  /\ UNCHANGED <<state, balance, status, nMode, nDist, codecIn, codecOut>>

\* mutant: the two sanity tests joined by "and"
RefundGasPanics_Both(used, allocation, amount) == amount > used /\ amount > allocation

RefundGasPanics(used, allocation, amount) == amount > used \/ amount > allocation

RefundGas(address, amount) ==
  /\ status = "ok"
  /\ last.op # "AllocateDevGas"
  /\ nOps < MaxLedgerOps
  /\ nOps' = nOps + 1
  /\ last' = [NoCall EXCEPT !.op = "RefundGas", !.address = address,
                            !.amount = amount, !.pre = Snapshot]
  /\ IF RefundGasPanics(gasUsed, GetGasUsedByContract(allocations, address), amount)
     THEN /\ status' = "panic"
          /\ UNCHANGED <<allocations, gasUsed>>
     ELSE /\ status' = "ok"
          /\ gasUsed' = gasUsed - amount
          /\ allocations' = MapSet(allocations, address,
                                   GetGasUsedByContract(allocations, address) - amount)
  /\ UNCHANGED <<state, balance, nMode, nDist, codecIn, codecOut>>

\* test helper setGasMode: the external toggle of a record's mode
setGasMode(contractAddress, mode) ==
  /\ status = "ok"
  /\ last.op \in {"none", "NewGasTracker", "setGasMode"}
  /\ nMode < MaxModeSets
  /\ nMode' = nMode + 1
  /\ readGasParameters(state, contractAddress).mode # mode
  /\ LET gasParameters == [readGasParameters(state, contractAddress) EXCEPT !.mode = mode]
     IN  IF packPanics(gasParameters)
         THEN status' = "panic" /\ UNCHANGED state
         ELSE status' = "ok"
              /\ state' = updateGasParameters(state, contractAddress, gasParameters)
  /\ last' = [NoCall EXCEPT !.op = "setGasMode"]
  /\ UNCHANGED <<allocations, gasUsed, balance, nOps, nDist, codecIn, codecOut>>

\* ---------------------------------------------------------- distribution
\* mutant: the refund half of the early return is missing
AllocateDevGasReturnsEarly_ZeroOnly(used, refund) == used = 0

AllocateDevGasReturnsEarly(used, refund) == used = 0 \/ used <= refund

\* mutant: the division is done before the multiplication
scaledGasUnits_DivideFirst(remainingGas, rawAmount, netGas) ==
  remainingGas * (rawAmount \div netGas)

scaledGasUnits(remainingGas, rawAmount, netGas) ==
  (remainingGas * rawAmount) \div netGas

\* mutant: a zero fee also reaches updateGasPredeploy
feePositive_OrZero(fee) == fee >= 0

\* the fee test guarding updateGasPredeploy
feePositive(fee) == fee > 0

\* mutant: accumulatedGas grows before the mode test
DevGasIteration_AccumulateAll(acc, addr, rawAmount, gasPrice, remainingGas, netGas, blockTimestamp) ==
  IF acc.panicked THEN acc
  ELSE
    LET units         == scaledGasUnits(remainingGas, rawAmount, netGas)
        total         == acc.totalGasAccount + units
        gasParameters == readGasParameters(acc.state, addr)
        fee           == units * gasPrice
        updated       == predeployParameters(fee, blockTimestamp, gasParameters)
    IN  IF ~gasParameters.mode
        THEN [acc EXCEPT !.totalGasAccount = total,
                         !.accumulatedGas = acc.accumulatedGas + units]
        ELSE IF ~feePositive(fee)
        THEN [acc EXCEPT !.totalGasAccount = total,
                         !.accumulatedGas = acc.accumulatedGas + units]
        ELSE IF packPanics(updated)
        THEN [acc EXCEPT !.totalGasAccount = total,
                         !.accumulatedGas = acc.accumulatedGas + units,
                         !.panicked = TRUE]
        ELSE [acc EXCEPT !.totalGasAccount = total,
                         !.accumulatedGas = acc.accumulatedGas + units,
                         !.state = updateGasParameters(acc.state, addr, updated)]

\* mutant: each share is taken from the gas the earlier shares left over
DevGasIteration_FromWhatIsLeft(acc, addr, rawAmount, gasPrice, remainingGas, netGas, blockTimestamp) ==
  IF acc.panicked THEN acc
  ELSE
    LET units         == scaledGasUnits(remainingGas - acc.totalGasAccount, rawAmount, netGas)
        total         == acc.totalGasAccount + units
        gasParameters == readGasParameters(acc.state, addr)
        fee           == units * gasPrice
        updated       == predeployParameters(fee, blockTimestamp, gasParameters)
    IN  IF ~gasParameters.mode
        THEN [acc EXCEPT !.totalGasAccount = total]
        ELSE IF ~feePositive(fee)
        THEN [acc EXCEPT !.totalGasAccount = total,
                         !.accumulatedGas = acc.accumulatedGas + units]
        ELSE IF packPanics(updated)
        THEN [acc EXCEPT !.totalGasAccount = total,
                         !.accumulatedGas = acc.accumulatedGas + units,
                         !.panicked = TRUE]
        ELSE [acc EXCEPT !.totalGasAccount = total,
                         !.accumulatedGas = acc.accumulatedGas + units,
                         !.state = updateGasParameters(acc.state, addr, updated)]

\* one iteration of the loop over gtm.allocations; acc carries the storage,
\* accumulatedGas, totalGasAccount and whether a panic has been raised
DevGasIteration(acc, addr, rawAmount, gasPrice, remainingGas, netGas, blockTimestamp) ==
  IF acc.panicked THEN acc
  ELSE
    LET units         == scaledGasUnits(remainingGas, rawAmount, netGas)
        total         == acc.totalGasAccount + units
        gasParameters == readGasParameters(acc.state, addr)
        fee           == units * gasPrice
        updated       == predeployParameters(fee, blockTimestamp, gasParameters)
    IN  IF ~gasParameters.mode
        THEN [acc EXCEPT !.totalGasAccount = total]
        ELSE IF ~feePositive(fee)
        THEN [acc EXCEPT !.totalGasAccount = total,
                         !.accumulatedGas = acc.accumulatedGas + units]
        ELSE IF packPanics(updated)
        THEN [acc EXCEPT !.totalGasAccount = total,
                         !.accumulatedGas = acc.accumulatedGas + units,
                         !.panicked = TRUE]
        ELSE [acc EXCEPT !.totalGasAccount = total,
                         !.accumulatedGas = acc.accumulatedGas + units,
                         !.state = updateGasParameters(acc.state, addr, updated)]

RECURSIVE DevGasLoop(_, _, _, _, _, _, _, _)
\* the loop, visiting the keys of allocs in the given order, from position i
DevGasLoop(acc, order, i, allocs, gasPrice, remainingGas, netGas, blockTimestamp) ==
  IF i > Len(order) THEN acc
  ELSE DevGasLoop(DevGasIteration(acc, order[i], allocs[order[i]], gasPrice,
                                  remainingGas, netGas, blockTimestamp),
                  order, i + 1, allocs, gasPrice, remainingGas, netGas, blockTimestamp)

\* mutant: PatexGasAddress is credited for every share, opted in or not
DevGasResult_EscrowFromTotal(allocs, used, st, bal, gasPrice, refund, timestamp, order) ==
  IF AllocateDevGasReturnsEarly(used, refund)
  THEN [state |-> st, balance |-> bal, panicked |-> FALSE]
  ELSE
    LET remainingGas == (used - refund) % UintMod
        acc == DevGasLoop([state |-> st, accumulatedGas |-> 0, totalGasAccount |-> 0,
                           panicked |-> FALSE],
                          order, 1, allocs, gasPrice, remainingGas, used, timestamp)
        patexGas == (remainingGas - acc.accumulatedGas) * gasPrice
        claimableGasToAdd == acc.totalGasAccount * gasPrice
    IN  IF acc.panicked \/ acc.totalGasAccount > remainingGas
        THEN [state |-> acc.state, balance |-> bal, panicked |-> TRUE]
        ELSE [state |-> acc.state,
              balance |-> [bal EXCEPT ![PatexBaseFeeRecipient] = @ + patexGas,
                                      ![PatexGasAddress] = @ + claimableGasToAdd],
              panicked |-> FALSE]

\* mutant: the base fee recipient gets what no share covers, not what no
\* accruing contract claims
DevGasResult_DefaultFromTotal(allocs, used, st, bal, gasPrice, refund, timestamp, order) ==
  IF AllocateDevGasReturnsEarly(used, refund)
  THEN [state |-> st, balance |-> bal, panicked |-> FALSE]
  ELSE
    LET remainingGas == (used - refund) % UintMod
        acc == DevGasLoop([state |-> st, accumulatedGas |-> 0, totalGasAccount |-> 0,
                           panicked |-> FALSE],
                          order, 1, allocs, gasPrice, remainingGas, used, timestamp)
        patexGas == (remainingGas - acc.totalGasAccount) * gasPrice
        claimableGasToAdd == acc.accumulatedGas * gasPrice
    IN  IF acc.panicked \/ acc.totalGasAccount > remainingGas
        THEN [state |-> acc.state, balance |-> bal, panicked |-> TRUE]
        ELSE [state |-> acc.state,
              balance |-> [bal EXCEPT ![PatexBaseFeeRecipient] = @ + patexGas,
                                      ![PatexGasAddress] = @ + claimableGasToAdd],
              panicked |-> FALSE]

\* the storage, balances and outcome AllocateDevGas leaves behind
DevGasResult(allocs, used, st, bal, gasPrice, refund, timestamp, order) ==
  IF AllocateDevGasReturnsEarly(used, refund)
  THEN [state |-> st, balance |-> bal, panicked |-> FALSE]
  ELSE
    LET remainingGas == (used - refund) % UintMod
        acc == DevGasLoop([state |-> st, accumulatedGas |-> 0, totalGasAccount |-> 0,
                           panicked |-> FALSE],
                          order, 1, allocs, gasPrice, remainingGas, used, timestamp)
        patexGas == (remainingGas - acc.accumulatedGas) * gasPrice
        claimableGasToAdd == acc.accumulatedGas * gasPrice
    IN  IF acc.panicked \/ acc.totalGasAccount > remainingGas
        THEN [state |-> acc.state, balance |-> bal, panicked |-> TRUE]
        ELSE [state |-> acc.state,
              balance |-> [bal EXCEPT ![PatexBaseFeeRecipient] = @ + patexGas,
                                      ![PatexGasAddress] = @ + claimableGasToAdd],
              panicked |-> FALSE]

AllocateDevGas(gasPrice, refund, timestamp, order) ==
  /\ status = "ok"
  /\ last.op # "AllocateDevGas"
  /\ nDist < MaxDistribute
  /\ nDist' = nDist + 1
  /\ LET r == DevGasResult(allocations, gasUsed, state, balance, gasPrice, refund,
                           timestamp, order)
     IN  /\ state' = r.state
         /\ balance' = r.balance
         /\ status' = IF r.panicked THEN "panic" ELSE "ok"
  /\ last' = [NoCall EXCEPT !.op = "AllocateDevGas", !.gasPrice = gasPrice,
                            !.refund = refund, !.timestamp = timestamp,
                            !.pre = Snapshot]
  /\ UNCHANGED <<allocations, gasUsed, nOps, nMode, codecIn, codecOut>>

Next ==
  \/ NewGasTracker
  \/ \E address \in Addrs, amount \in UseAmounts : UseGas(address, amount)
  \/ \E address \in Addrs, amount \in RefundAmounts : RefundGas(address, amount)
  \/ \E address \in Addrs, mode \in BOOLEAN : setGasMode(address, mode)
  \/ \E gasPrice \in GasPrices, refund \in DevRefunds, timestamp \in Timestamps,
        order \in Perms(DOMAIN allocations) :
          AllocateDevGas(gasPrice, refund, timestamp, order)

Spec == Init /\ [][Next]_vars

\* ------------------------------------------------- codec specification
\* field values around the limit of an n-digit buffer, and the values of
\* TestPackUnpackGasParameters
Around(n) ==
  {0, 1, 100, 200, 300, Pow(ByteBase, n) - 1, Pow(ByteBase, n), Pow(ByteBase, n) + 1}

CodecInputs ==
  [mode : BOOLEAN, etherBalance : Around(EtherBalanceLen),
   etherSeconds : Around(EtherSecondsLen), lastUpdated : Around(LastUpdatedLen)]

InitCodec ==
  /\ allocations = EmptyMap
  /\ gasUsed = 0
  /\ state = [s \in Slots |-> ZeroHash]
  /\ balance = [a \in Accounts |-> 0]
  /\ status = "ok"
  /\ last = NoCall
  /\ nOps = 0
  /\ nMode = 0
  /\ nDist = 0
  /\ codecIn \in CodecInputs
  /\ codecOut = NoCodec

\* packAndUnpack, first half: pack(gasParams)
Pack ==
  /\ codecOut.step = "none"
  /\ codecOut' = IF packPanics(codecIn)
                 THEN [NoCodec EXCEPT !.step = "pack", !.panicked = TRUE]
                 ELSE [NoCodec EXCEPT !.step = "pack", !.packed = pack(codecIn)]
  /\ UNCHANGED <<allocations, gasUsed, state, balance, status, last, nOps, nMode,
                 nDist, codecIn>>

\* unpack of a byte string: the length test, then the four fields
UnpackBytes(bytes) ==
  /\ codecOut.step = "pack"
  /\ ~codecOut.panicked
  /\ codecOut' = IF unpackErr(bytes)
                 THEN [codecOut EXCEPT !.step = "unpack", !.input = bytes, !.err = TRUE]
                 ELSE [codecOut EXCEPT !.step = "unpack", !.input = bytes,
                                       !.unpacked = unpack(bytes)]
  /\ UNCHANGED <<allocations, gasUsed, state, balance, status, last, nOps, nMode,
                 nDist, codecIn>>

\* packAndUnpack, second half: unpack(packedBytes)
Unpack == UnpackBytes(codecOut.packed)

\* unpack of a slot that lost its last byte
UnpackShort == UnpackBytes(SubSeq(codecOut.packed, 1, Len(codecOut.packed) - 1))

NextCodec == Pack \/ Unpack \/ UnpackShort

SpecCodec == InitCodec /\ [][NextCodec]_vars

\* ======================================================== verification
\* the last call was AllocateDevGas, past the early return, and it returned
Distributed ==
  /\ last.op = "AllocateDevGas"
  /\ status = "ok"
  /\ last.pre.gasUsed > last.refund

\* floor((totalUsed - refund) * amount / totalUsed) for a ledger address
FloorShare(a) ==
  ((last.pre.gasUsed - last.refund) * last.pre.allocations[a]) \div last.pre.gasUsed

\* the ledger addresses whose record had accrues = true before the call
OptedIn == {a \in DOMAIN last.pre.allocations : readGasParameters(last.pre.state, a).mode}

AccruedShares == SumOver([a \in OptedIn |-> FloorShare(a)], OptedIn)

RecordBefore(a) == readGasParameters(last.pre.state, a)
RecordNow(a) == readGasParameters(state, a)

\* C1 (as stated): in every state the ledger reaches through UseGas and
\* RefundGas calls that respect the refund precondition, gasUsed equals the
\* sum of allocations[address] over all addresses.
C1_LedgerConservation ==
  status = "ok" => gasUsed = SumOver(allocations, DOMAIN allocations)

\* C2: RefundGas(address, amount) panics exactly when amount > gasUsed or
\* amount > allocations[address] at call time (an absent address counting as
\* 0); otherwise it subtracts amount from both and does not panic.
C2_RefundPrecondition ==
  last.op = "RefundGas" =>
    LET used  == last.pre.gasUsed
        alloc == IF last.address \in DOMAIN last.pre.allocations
                 THEN last.pre.allocations[last.address] ELSE 0
    IN  /\ (status = "panic") <=> (last.amount > used \/ last.amount > alloc)
        /\ status = "panic" =>
             allocations = last.pre.allocations /\ gasUsed = used
        /\ status = "ok" =>
             /\ gasUsed = used - last.amount
             /\ last.address \in DOMAIN allocations
             /\ allocations[last.address] = alloc - last.amount

\* a refund that fits gasUsed but exceeds the address's own allocation aborted
C2_Witness ==
  /\ last.op = "RefundGas"
  /\ status = "panic"
  /\ last.amount > 0
  /\ last.amount <= last.pre.gasUsed
  /\ last.address \notin DOMAIN last.pre.allocations

\* C3: when AllocateDevGas runs with gasUsed > refund, every ledger address
\* whose record has mode = true has its etherBalance increased by exactly
\* floor((gasUsed - refund) * amount / gasUsed) * gasPrice; with refund = 0
\* the increase is amount * gasPrice.
C3_PerContractShare ==
  Distributed =>
    \A a \in OptedIn :
      /\ RecordNow(a).etherBalance
           = RecordBefore(a).etherBalance + FloorShare(a) * last.gasPrice
      /\ last.refund = 0 =>
           RecordNow(a).etherBalance
             = RecordBefore(a).etherBalance + last.pre.allocations[a] * last.gasPrice

\* an opted-in address received a share that the floor rounded down
C3_Witness ==
  /\ Distributed
  /\ last.refund > 0
  /\ last.gasPrice > 1
  /\ \E a \in OptedIn :
       /\ FloorShare(a) > 0
       /\ ((last.pre.gasUsed - last.refund) * last.pre.allocations[a]) % last.pre.gasUsed # 0
       /\ RecordNow(a).etherBalance > RecordBefore(a).etherBalance

\* C4: when AllocateDevGas runs with gasUsed > refund, the base-fee
\* recipient's balance grows by exactly (remaining - accruedShares) * gasPrice,
\* accruedShares being the sum of the floor shares of the opted-in addresses.
C4_DefaultRecipientCredit ==
  Distributed =>
    balance[PatexBaseFeeRecipient]
      = last.pre.balance[PatexBaseFeeRecipient]
          + ((last.pre.gasUsed - last.refund) - AccruedShares) * last.gasPrice

\* one contract opted in, one not, and a rounding remainder: the default
\* recipient got more than the share of the contract that does not accrue
C4_Witness ==
  /\ Distributed
  /\ last.gasPrice > 0
  /\ \E a \in OptedIn : FloorShare(a) > 0
  /\ \E a \in DOMAIN last.pre.allocations \ OptedIn :
       /\ FloorShare(a) > 0
       /\ balance[PatexBaseFeeRecipient] - last.pre.balance[PatexBaseFeeRecipient]
            > FloorShare(a) * last.gasPrice

\* C5: every AllocateDevGas call credits PatexGasAddress with exactly
\* accruedShares * gasPrice, the sum of the increases of the record balances
\* written in that call; so from empty storage the PatexGasAddress balance
\* equals the sum of etherBalance over all records.
C5_EscrowMirrorsRecords ==
  /\ status = "ok" =>
       balance[PatexGasAddress]
         = SumOver([a \in Addrs |-> RecordNow(a).etherBalance], Addrs)
  /\ Distributed =>
       /\ balance[PatexGasAddress] - last.pre.balance[PatexGasAddress]
            = AccruedShares * last.gasPrice
       /\ AccruedShares * last.gasPrice
            = SumOver([a \in OptedIn |->
                         RecordNow(a).etherBalance - RecordBefore(a).etherBalance],
                      OptedIn)

\* a second distribution ran after a contract that was credited by the first
\* one opted out: its new share is not added to the escrow
C5_Witness ==
  /\ Distributed
  /\ nDist = 2
  /\ last.gasPrice > 0
  /\ last.pre.balance[PatexGasAddress] > 0
  /\ \E a \in DOMAIN last.pre.allocations :
       ~RecordNow(a).mode /\ RecordNow(a).etherBalance > 0 /\ FloorShare(a) > 0

\* C6: every iteration order over the ledger's allocations gives AllocateDevGas
\* the same outcome: the same records and the same two account balances.
C6_OrderIndependence ==
  last.op = "AllocateDevGas" =>
    \A order \in Perms(DOMAIN last.pre.allocations) :
      LET r == DevGasResult(last.pre.allocations, last.pre.gasUsed, last.pre.state,
                            last.pre.balance, last.gasPrice, last.refund,
                            last.timestamp, order)
      IN  /\ r.panicked <=> status = "panic"
          /\ ~r.panicked => r.state = state /\ r.balance = balance

\* two opted-in contracts were both credited, each with a rounded-down share
C6_Witness ==
  /\ Distributed
  /\ Cardinality(OptedIn) >= 2
  /\ \A a \in OptedIn :
       /\ RecordNow(a).etherBalance > RecordBefore(a).etherBalance
       /\ ((last.pre.gasUsed - last.refund) * last.pre.allocations[a])
            % last.pre.gasUsed # 0

\* C7: with gasUsed = 0 or gasUsed <= refund AllocateDevGas changes nothing:
\* no record, neither account balance, nor the ledger.
C7_NoOpThreshold ==
  (last.op = "AllocateDevGas"
     /\ (last.pre.gasUsed = 0 \/ last.pre.gasUsed <= last.refund)) =>
    /\ status = "ok"
    /\ state = last.pre.state
    /\ balance = last.pre.balance
    /\ allocations = last.pre.allocations
    /\ gasUsed = last.pre.gasUsed

\* a ledger with gas used by an opted-in contract, fully absorbed by the refund
C7_Witness ==
  /\ last.op = "AllocateDevGas"
  /\ last.pre.gasUsed > 0
  /\ last.pre.gasUsed <= last.refund
  /\ last.gasPrice > 0
  /\ OptedIn # {}

\* the ledger addresses updateGasPredeploy was called for
Accrued == {a \in OptedIn : FloorShare(a) * last.gasPrice > 0}

\* v + b * (timestamp - l) on the record before the call
SecondsDue(a) ==
  RecordBefore(a).etherSeconds
    + RecordBefore(a).etherBalance * (last.timestamp - RecordBefore(a).lastUpdated)

\* C8 (as stated): updateGasPredeploy on a record (b, v, l) writes back
\* etherSeconds = v + b * (timestamp - l), etherBalance = b + fee,
\* lastUpdated = timestamp and the same mode.
C8_AsStated ==
  Distributed =>
    \A a \in Accrued :
      RecordNow(a) =
        [mode         |-> RecordBefore(a).mode,
         etherSeconds |-> SecondsDue(a),
         etherBalance |-> RecordBefore(a).etherBalance + FloorShare(a) * last.gasPrice,
         lastUpdated  |-> last.timestamp]

\* C8 (amended): updateGasPredeploy writes back etherBalance = b + fee,
\* lastUpdated = timestamp, the same mode, and etherSeconds =
\* v + b * (timestamp - l) when that sum is not negative (as it is whenever
\* timestamp >= l); a negative sum is stored as its absolute value.
C8_TimeWeightedAccrual ==
  Distributed =>
    \A a \in Accrued :
      /\ RecordNow(a).mode = RecordBefore(a).mode
      /\ RecordNow(a).etherBalance
           = RecordBefore(a).etherBalance + FloorShare(a) * last.gasPrice
      /\ RecordNow(a).lastUpdated = last.timestamp
      /\ SecondsDue(a) >= 0 => RecordNow(a).etherSeconds = SecondsDue(a)
      /\ SecondsDue(a) < 0 => RecordNow(a).etherSeconds = -SecondsDue(a)
      /\ last.timestamp >= RecordBefore(a).lastUpdated => SecondsDue(a) >= 0

\* a record that held a balance over an elapsed interval was credited again
C8_Witness ==
  /\ Distributed
  /\ \E a \in Accrued :
       /\ RecordBefore(a).etherBalance > 0
       /\ last.timestamp > RecordBefore(a).lastUpdated
       /\ RecordNow(a).etherSeconds
            = RecordBefore(a).etherSeconds + RecordBefore(a).etherBalance
       /\ RecordNow(a).etherBalance > RecordBefore(a).etherBalance

\* the fields of the record handed to pack fit 12, 15 and 4 bytes
CodecInRange ==
  /\ codecIn.etherBalance >= 0 /\ codecIn.etherBalance < Pow(ByteBase, EtherBalanceLen)
  /\ codecIn.etherSeconds >= 0 /\ codecIn.etherSeconds < Pow(ByteBase, EtherSecondsLen)
  /\ codecIn.lastUpdated >= 0 /\ codecIn.lastUpdated < Pow(ByteBase, LastUpdatedLen)

\* C9: for a record whose fields fit their widths pack yields exactly 32
\* bytes and unpack of them succeeds and returns the record in all four fields.
C9_RoundTrip ==
  /\ (codecOut.step = "pack" /\ CodecInRange) =>
       ~codecOut.panicked /\ Len(codecOut.packed) = SlotLen
  /\ (codecOut.step = "unpack" /\ codecOut.input = codecOut.packed) =>
       /\ CodecInRange
       /\ ~codecOut.err
       /\ codecOut.unpacked.mode = codecIn.mode
       /\ codecOut.unpacked.etherBalance = codecIn.etherBalance
       /\ codecOut.unpacked.etherSeconds = codecIn.etherSeconds
       /\ codecOut.unpacked.lastUpdated = codecIn.lastUpdated

\* a record with mode set and all three fields at their largest value came back
C9_Witness ==
  /\ codecOut.step = "unpack"
  /\ codecOut.input = codecOut.packed
  /\ ~codecOut.err
  /\ codecIn.mode
  /\ codecIn.etherBalance = Pow(ByteBase, EtherBalanceLen) - 1
  /\ codecIn.etherSeconds = Pow(ByteBase, EtherSecondsLen) - 1
  /\ codecIn.lastUpdated = Pow(ByteBase, LastUpdatedLen) - 1
  /\ codecOut.unpacked = codecIn

\* C10: pack panics whenever etherBalance, etherSeconds or lastUpdated
\* reaches the limit of its 12, 15 or 4 bytes, and succeeds with every field
\* at most one below its limit; no field is cut down silently.
C10_OverflowRejection ==
  codecOut.step \in {"pack", "unpack"} =>
    /\ codecOut.panicked <=>
         \/ codecIn.etherBalance >= Pow(ByteBase, EtherBalanceLen)
         \/ codecIn.etherSeconds >= Pow(ByteBase, EtherSecondsLen)
         \/ codecIn.lastUpdated >= Pow(ByteBase, LastUpdatedLen)
    /\ ~codecOut.panicked =>
         /\ SetBytes(SubSeq(codecOut.packed, 2, 13)) = codecIn.etherBalance
         /\ SetBytes(SubSeq(codecOut.packed, 14, 28)) = codecIn.etherSeconds
         /\ SetBytes(SubSeq(codecOut.packed, 29, 32)) = codecIn.lastUpdated

\* pack refused a record whose only oversized field is exactly at its limit
C10_Witness ==
  /\ codecOut.step = "pack"
  /\ codecOut.panicked
  /\ codecIn.etherBalance = Pow(ByteBase, EtherBalanceLen) - 1
  /\ codecIn.etherSeconds = Pow(ByteBase, EtherSecondsLen)
  /\ codecIn.lastUpdated = Pow(ByteBase, LastUpdatedLen) - 1

\* the sum of the floor shares of all ledger addresses (totalGasAccount)
AccountedShares ==
  SumOver([a \in DOMAIN last.pre.allocations |-> FloorShare(a)],
          DOMAIN last.pre.allocations)

\* C11 (as stated): for every ledger reached from a new one by UseGas and
\* RefundGas calls and every refund with gasUsed > refund, the sum of the
\* floor shares AllocateDevGas computes does not exceed gasUsed - refund, so
\* the "gas accounting inflation" panic never fires.
C11_SanityCheckUnreachable ==
  (last.op = "AllocateDevGas" /\ last.pre.gasUsed > last.refund) =>
    AccountedShares <= last.pre.gasUsed - last.refund

\* the addresses whose record AllocateDevGas may write: ledger keys whose
\* record has mode = true and whose share is worth more than nothing
MayBeWritten ==
  {a \in DOMAIN last.pre.allocations :
     /\ readGasParameters(last.pre.state, a).mode
     /\ scaledGasUnits((last.pre.gasUsed - last.refund) % UintMod,
                       last.pre.allocations[a], last.pre.gasUsed) * last.gasPrice > 0}

\* C12: AllocateDevGas modifies the record of an address only if the address
\* is a key of the ledger, its record has mode = true and share * gasPrice > 0;
\* every other record (mode = false, never registered, or worth 0) keeps its
\* four fields, lastUpdated included.
C12_RecordFrame ==
  last.op = "AllocateDevGas" =>
    \A a \in Addrs :
      (a \notin MayBeWritten \/ last.pre.gasUsed = 0 \/ last.pre.gasUsed <= last.refund) =>
        /\ state[getContractStorageSlot(a)] = last.pre.state[getContractStorageSlot(a)]
        /\ RecordNow(a) = RecordBefore(a)

\* in one call that credited a contract: a contract that opted out after an
\* earlier credit used gas and kept its record, its older lastUpdated included
C12_Witness ==
  /\ Distributed
  /\ last.gasPrice > 0
  /\ \E a \in DOMAIN last.pre.allocations :
       /\ ~RecordBefore(a).mode
       /\ FloorShare(a) > 0
       /\ RecordBefore(a).etherBalance > 0
       /\ RecordBefore(a).lastUpdated # last.timestamp
       /\ RecordNow(a) = RecordBefore(a)

\* what one call added to the balance of an account
Credit(account) == balance[account] - last.pre.balance[account]

\* C13: every AllocateDevGas call with gasUsed > refund that returns credits
\* PatexBaseFeeRecipient and PatexGasAddress with amounts whose sum is exactly
\* (gasUsed - refund) * gasPrice, whatever the split and the rounding.
C13_ValueConservation ==
  Distributed =>
    Credit(PatexBaseFeeRecipient) + Credit(PatexGasAddress)
      = (last.pre.gasUsed - last.refund) * last.gasPrice

\* both accounts were credited in a call whose floor shares leave a rounding
\* remainder and whose ledger holds a contract that does not accrue
C13_Witness ==
  /\ Distributed
  /\ last.gasPrice > 0
  /\ Credit(PatexBaseFeeRecipient) > 0
  /\ Credit(PatexGasAddress) > 0
  /\ AccountedShares < last.pre.gasUsed - last.refund
  /\ AccruedShares < AccountedShares

\* C14: in every AllocateDevGas call (gasPrice is never negative) no record's
\* mode changes, and a record whose lastUpdated is not after the call's
\* timestamp -- every record, when timestamps do not decrease across calls --
\* has its etherBalance, etherSeconds and lastUpdated not decreased.
C14_MonotoneAccrual ==
  last.op = "AllocateDevGas" =>
    \A a \in Addrs :
      /\ RecordNow(a).mode = RecordBefore(a).mode
      /\ last.timestamp >= RecordBefore(a).lastUpdated =>
           /\ RecordNow(a).etherBalance >= RecordBefore(a).etherBalance
           /\ RecordNow(a).etherSeconds >= RecordBefore(a).etherSeconds
           /\ RecordNow(a).lastUpdated >= RecordBefore(a).lastUpdated

\* a second credit at a later timestamp: the record kept mode = true and its
\* three counters all grew
C14_Witness ==
  /\ Distributed
  /\ \E a \in Addrs :
       /\ RecordBefore(a).mode /\ RecordNow(a).mode
       /\ RecordBefore(a).lastUpdated > 0
       /\ RecordNow(a).lastUpdated > RecordBefore(a).lastUpdated
       /\ RecordNow(a).etherBalance > RecordBefore(a).etherBalance
       /\ RecordNow(a).etherSeconds > RecordBefore(a).etherSeconds
====
